---- MODULE Spec2Model ----
(***************************************************************************)
(* A model of fractal_3d.py: the octahedron, the displacement rule         *)
(* fractal_interpolate, the edge-split table of split_vertex, the          *)
(* subdivision pass refine_mesh, the two refinement drivers                *)
(* (fractal_refinement, cached_planet behind st.cache) and                 *)
(* planet_colorscale.                                                      *)
(*                                                                         *)
(* Representation.                                                         *)
(*  - A vertex index is a Python index (0-based); the vertex list is a     *)
(*    TLA+ sequence, so index k is element k+1.                            *)
(*  - A position is abstracted to the vector of the signs of its three     *)
(*    float64 coordinates (-1, 0, 1); NaN is the all-NaN vector that a     *)
(*    0/0 division produces; Unknown is a position whose signs the         *)
(*    abstraction cannot tell (a sum of coordinates of opposite sign).     *)
(*  - Slider values are kept in hundredths (1.0 is 100), so that the       *)
(*    factor range of a pass is computed in exact integer arithmetic.      *)
(*  - random.random() is a seeded generator: its state is a counter, the   *)
(*    seed is arbitrary, and a draw is 0 (exactly 0.0) or 1 (a value in    *)
(*    (0,1)).                                                              *)
(***************************************************************************)
EXTENDS Integers, Sequences, FiniteSets, TLC

VARIABLES
    params,        \* the widget values of this run: mode, refinements, offset_range, dampen
    vertices,      \* the driver's current vertex list (the argument of refine_mesh)
    faces,         \* the driver's current face list
    i,             \* the driver's loop variable (pass index)
    interpolate,   \* the closure handed to refine_mesh for the current pass
    new_vertices,  \* refine_mesh: new_vertices
    new_faces,     \* refine_mesh: new_faces
    splits,        \* refine_mesh: splits, (vertex_1, vertex_2) -> split vertex
    fi,            \* refine_mesh: position of the for loop (1-based face number)
    a_b,           \* refine_mesh: a_b of the face in progress
    b_c,           \* refine_mesh: b_c of the face in progress
    pc,            \* control point
    rng,           \* state of the global random generator
    in_vertices,   \* history: the vertex list as it was when refine_mesh was called
    in_faces,      \* history: the face list as it was when refine_mesh was called
    call,          \* history: the last split_vertex call
    first_ret,     \* history: unordered pair -> index returned by its first call
    created,       \* history: the keys in the order their vertices were created
    cache,         \* st.cache of cached_planet: argument tuple -> returned mesh
    seen,          \* history: invocation key -> mesh returned by its first invocation
    last,          \* history: the last pipeline invocation
    ninv,          \* number of pipeline invocations so far
    colorscale,    \* planet_colorscale: colorscale
    ci             \* planet_colorscale: position of the for loop (1-based preset number)

vars == <<params, vertices, faces, i, interpolate, new_vertices, new_faces, splits,
          fi, a_b, b_c, pc, rng, in_vertices, in_faces, call, first_ret, created,
          cache, seen, last, ninv, colorscale, ci>>

meshVars == <<params, vertices, faces, i, interpolate, new_vertices, new_faces, splits,
              fi, a_b, b_c, pc, in_vertices, in_faces, call, first_ret, created>>
cacheVars == <<cache, seen, last, ninv>>
colorVars == <<colorscale, ci>>

(***************************************************************************)
(* Bounds of the model.                                                    *)
(***************************************************************************)
\* passes the stepwise driver runs at most (the widget allows 0..9)
MaxRefinements == 2
\* passes an invocation of the memoised pipeline runs at most
MaxCachedRefinements == 1
\* pipeline invocations in one behaviour
MaxInvocations == 2
\* period of the modelled random generator
RngPeriod == 3
\* faces of an arbitrary input mesh
MaxFaces == 2

(***************************************************************************)
(* Positions.                                                              *)
(***************************************************************************)
Sgn(x) == IF x > 0 THEN 1 ELSE IF x < 0 THEN -1 ELSE 0

Zero == <<0, 0, 0>>
NaN == <<2, 2, 2>>
Unknown == <<3, 3, 3>>

\* sign of the sum of two coordinates of signs s and t; 3 when it depends on magnitudes
AddSign(s, t) == IF s = t THEN s ELSE IF s = 0 THEN t ELSE IF t = 0 THEN s ELSE 3

\* fractal_interpolate with the factor already drawn; f is the sign of the factor.
\* norm(midpoint_vec) is 0.0 exactly when the midpoint is the zero vector, and
\* numpy's division by it yields NaN coordinates (a RuntimeWarning, no exception).
fractal_interpolate(vec_1, vec_2, f) ==
    IF vec_1 = NaN \/ vec_2 = NaN THEN NaN
    ELSE IF vec_1 = Unknown \/ vec_2 = Unknown THEN Unknown
    ELSE LET midpoint_vec == [k \in 1..3 |-> AddSign(vec_1[k], vec_2[k])]
         IN  IF \E k \in 1..3 : midpoint_vec[k] = 3 THEN Unknown
             ELSE IF midpoint_vec = Zero THEN NaN
             ELSE [k \in 1..3 |-> midpoint_vec[k] * f]

\* random.random(): the draw of generator state s, and the state after it
Draw(s) == IF s = 0 THEN 0 ELSE 1
NextRng(s) == (s + 1) % RngPeriod

\* random.uniform(lo, hi) = lo + (hi - lo) * random(), with draw u
Uniform(lo, hi, u) == lo + (hi - lo) * u

\* The closure `interpolate` of a pass: rule.kind = "range" is the drivers'
\* fractal_interpolate(v1, v2, factor=(lo, hi)); rule.kind = "oracle" is a
\* function that returns rule.val whatever its arguments.
Interpolate(rule, vec_1, vec_2, s) ==
    IF rule.kind = "oracle"
    THEN [val |-> rule.val, rng |-> s]
    ELSE [val |-> fractal_interpolate(vec_1, vec_2,
                      Sgn(Uniform(rule.lo, rule.hi, Draw(s)))),
          rng |-> NextRng(s)]

RECURSIVE Pow(_, _)
Pow(b, e) == IF e = 0 THEN 1 ELSE b * Pow(b, e - 1)

\* fractal_refinement: factor=(x, x) for the slider value x of the pass
FractalRule(x) == [kind |-> "range", lo |-> x, hi |-> x, val |-> Zero]

\* cached_planet: factor_range of pass k, times 100^(k+1)
PlanetRule(offset_range, dampen, k) ==
    [kind |-> "range",
     lo |-> Pow(100, k + 1) - offset_range * Pow(dampen, k),
     hi |-> Pow(100, k + 1) + offset_range * Pow(dampen, k),
     val |-> Zero]

OracleRule(v) == [kind |-> "oracle", lo |-> 0, hi |-> 0, val |-> v]

(***************************************************************************)
(* create_octahedron                                                       *)
(***************************************************************************)
OctahedronVertices ==
    << <<1, 0, 0>>, <<0, 1, 0>>, <<0, 0, 1>>,
       <<-1, 0, 0>>, <<0, -1, 0>>, <<0, 0, -1>> >>

OctahedronFaces ==
    << <<0, 1, 2>>, <<1, 3, 2>>, <<3, 4, 2>>, <<4, 0, 2>>,
       <<0, 5, 1>>, <<1, 5, 3>>, <<3, 5, 4>>, <<4, 5, 0>> >>

(***************************************************************************)
(* split_vertex                                                            *)
(***************************************************************************)
\* the key without lines 58-59: the pair as it was passed
SplitKeyAsPassed(vertex_1, vertex_2) == <<vertex_1, vertex_2>>

\* lines 58-59: the key of the splits table
SplitKey(vertex_1, vertex_2) ==
    IF vertex_1 > vertex_2 THEN <<vertex_2, vertex_1>> ELSE <<vertex_1, vertex_2>>

\* without the copy of line 77 new_vertices is the caller's list itself
CallerListAliased(vs, nv) == nv

\* what list(vertices) leaves of the caller's list when new_vertices becomes nv
CallerList(vs, nv) == vs

\* split_vertex without line 67: the new vertex is not recorded in the table
split_vertex_unrecorded(vertex_1, vertex_2, vs, sp, rule, s) ==
    LET key == SplitKey(vertex_1, vertex_2)
    IN  IF key \in DOMAIN sp
        THEN [idx |-> sp[key], vs |-> vs, sp |-> sp, rng |-> s, called |-> FALSE]
        ELSE LET r == Interpolate(rule, vs[key[1] + 1], vs[key[2] + 1], s)
             IN  [idx |-> Len(vs),
                  vs |-> Append(vs, r.val),
                  sp |-> sp,
                  rng |-> r.rng,
                  called |-> TRUE]

\* split_vertex(vertex_1, vertex_2, vs, sp, rule) with the generator in state s:
\* the returned index, the vertex list, the table and the generator afterwards,
\* and whether interpolate was called.
split_vertex(vertex_1, vertex_2, vs, sp, rule, s) ==
    LET key == SplitKey(vertex_1, vertex_2)
    IN  IF key \in DOMAIN sp
        THEN [idx |-> sp[key], vs |-> vs, sp |-> sp, rng |-> s, called |-> FALSE]
        ELSE LET r == Interpolate(rule, vs[key[1] + 1], vs[key[2] + 1], s)
             IN  [idx |-> Len(vs),
                  vs |-> Append(vs, r.val),
                  sp |-> (key :> Len(vs)) @@ sp,
                  rng |-> r.rng,
                  called |-> TRUE]

\* lines 83-88 without the inner triangle
ChildFacesCornersOnly(a, b, c, ab, bc, ca) ==
    << <<ca, a, ab>>, <<ab, b, bc>>, <<bc, c, ca>> >>

\* lines 83-88 with a_b written twice in the second corner triangle
ChildFacesRepeatedCorner(a, b, c, ab, bc, ca) ==
    << <<ca, a, ab>>, <<ab, b, ab>>, <<bc, c, ca>>, <<ab, bc, ca>> >>

\* lines 83-88 with the inner triangle wound the other way
ChildFacesInnerFlipped(a, b, c, ab, bc, ca) ==
    << <<ca, a, ab>>, <<ab, b, bc>>, <<bc, c, ca>>, <<ab, ca, bc>> >>

\* lines 83-88: the four faces of one input face
ChildFaces(a, b, c, ab, bc, ca) ==
    << <<ca, a, ab>>, <<ab, b, bc>>, <<bc, c, ca>>, <<ab, bc, ca>> >>

EmptySplits == [k \in {} |-> 0]
NoCall == [a |-> 0, b |-> 0, ret |-> 0, len_before |-> 0, repeat |-> FALSE,
           called |-> FALSE, made |-> FALSE]

(***************************************************************************)
(* The drivers and refine_mesh, one step per split_vertex call.            *)
(***************************************************************************)
\* values of an "overshoot" slider (0.0 .. 2.0), in hundredths
OvershootVals == {0, 100}
\* values of the "offset range" slider (0.0 .. 1.0), in hundredths
OffsetRangeVals == {5, 100}
\* values of the "dampening" slider (0.0 .. 1.0), in hundredths
DampenVals == {92, 100}
\* the constant functions among the arbitrary interpolate functions
OracleVals == {NaN}

FractalParams(r) ==
    [mode |-> "fractal", refinements |-> r, offset_range |-> 0, dampen |-> 0]
PlanetParams(r, o, d) ==
    [mode |-> "planet", refinements |-> r, offset_range |-> o, dampen |-> d]
InputParams ==
    [mode |-> "input", refinements |-> 1, offset_range |-> 0, dampen |-> 0]

EmptyFirst == [k \in {} |-> 0]

InitRest ==
    /\ i = 0
    /\ interpolate = OracleRule(Zero)
    /\ new_vertices = <<>>
    /\ new_faces = <<>>
    /\ splits = EmptySplits
    /\ fi = 1
    /\ a_b = 0
    /\ b_c = 0
    /\ in_vertices = <<>>
    /\ in_faces = <<>>
    /\ call = NoCall
    /\ first_ret = EmptyFirst
    /\ created = <<>>
    /\ cache = [k \in {} |-> 0]
    /\ seen = [k \in {} |-> 0]
    /\ last = [made |-> FALSE]
    /\ ninv = 0
    /\ colorscale = <<>>
    /\ ci = 1

\* fractal_refinement or cached_planet's body, started on the octahedron
Init ==
    /\ params \in {FractalParams(r) : r \in 0..MaxRefinements}
                  \cup {PlanetParams(r, o, d) :
                          r \in 0..MaxRefinements, o \in OffsetRangeVals, d \in DampenVals}
    /\ vertices = OctahedronVertices
    /\ faces = OctahedronFaces
    /\ rng \in 0..(RngPeriod - 1)
    /\ pc = "driver"
    /\ InitRest

\* the closures the driver may build for pass i (lines 139-141, 156-161)
PassRules ==
    CASE params.mode = "fractal" -> {FractalRule(x) : x \in OvershootVals}
      [] params.mode = "planet" ->
             {PlanetRule(params.offset_range, params.dampen, i)}
      [] OTHER -> {OracleRule(v) : v \in OracleVals} \cup {FractalRule(100)}

\* lines 138-142 / 155-162 up to the call, and refine_mesh lines 75-78
BeginPass ==
    /\ pc = "driver"
    /\ i < params.refinements
    /\ \E rule \in PassRules : interpolate' = rule
    /\ new_vertices' = vertices
    /\ new_faces' = <<>>
    /\ splits' = EmptySplits
    /\ fi' = 1
    /\ pc' = "ab"
    /\ in_vertices' = vertices
    /\ in_faces' = faces
    /\ call' = NoCall
    /\ first_ret' = EmptyFirst
    /\ created' = <<>>
    /\ UNCHANGED <<params, vertices, faces, i, a_b, b_c, rng>>
    /\ UNCHANGED cacheVars
    /\ UNCHANGED colorVars

\* one call split_vertex(vertex_1, vertex_2, new_vertices, splits, interpolate)
\* whose result is r, with the history of the call
SplitEffect(vertex_1, vertex_2, r) ==
    /\ new_vertices' = r.vs
    /\ splits' = r.sp
    /\ rng' = r.rng
    /\ vertices' = CallerList(vertices, r.vs)
    /\ call' = [a |-> vertex_1, b |-> vertex_2, ret |-> r.idx,
                len_before |-> Len(new_vertices),
                repeat |-> {vertex_1, vertex_2} \in DOMAIN first_ret,
                called |-> r.called, made |-> TRUE]
    /\ first_ret' = IF {vertex_1, vertex_2} \in DOMAIN first_ret THEN first_ret
                    ELSE ({vertex_1, vertex_2} :> r.idx) @@ first_ret
    /\ created' = IF Len(r.vs) > Len(new_vertices)
                  THEN Append(created, [pair |-> {vertex_1, vertex_2}, idx |-> r.idx])
                  ELSE created

\* line 80
SplitAB ==
    /\ pc = "ab"
    /\ fi <= Len(faces)
    /\ LET r == split_vertex(faces[fi][1], faces[fi][2], new_vertices, splits,
                              interpolate, rng)
       IN  /\ SplitEffect(faces[fi][1], faces[fi][2], r)
           /\ a_b' = r.idx
    /\ pc' = "bc"
    /\ UNCHANGED <<params, faces, i, interpolate, new_faces, fi, b_c, in_vertices, in_faces>>
    /\ UNCHANGED cacheVars
    /\ UNCHANGED colorVars

\* line 81
SplitBC ==
    /\ pc = "bc"
    /\ LET r == split_vertex(faces[fi][2], faces[fi][3], new_vertices, splits,
                              interpolate, rng)
       IN  /\ SplitEffect(faces[fi][2], faces[fi][3], r)
           /\ b_c' = r.idx
    /\ pc' = "ca"
    /\ UNCHANGED <<params, faces, i, interpolate, new_faces, fi, a_b, in_vertices, in_faces>>
    /\ UNCHANGED cacheVars
    /\ UNCHANGED colorVars

\* lines 82-88
SplitCA ==
    /\ pc = "ca"
    /\ LET r == split_vertex(faces[fi][3], faces[fi][1], new_vertices, splits,
                              interpolate, rng)
       IN  /\ SplitEffect(faces[fi][3], faces[fi][1], r)
           /\ new_faces' = new_faces \o ChildFaces(faces[fi][1], faces[fi][2],
                                                   faces[fi][3], a_b, b_c, r.idx)
    /\ fi' = fi + 1
    /\ pc' = "ab"
    /\ UNCHANGED <<params, faces, i, interpolate, a_b, b_c, in_vertices, in_faces>>
    /\ UNCHANGED cacheVars
    /\ UNCHANGED colorVars

\* line 90, and the driver's assignment of the returned pair (lines 142, 162)
ReturnPass ==
    /\ pc = "ab"
    /\ fi > Len(faces)
    /\ vertices' = new_vertices
    /\ faces' = new_faces
    /\ i' = i + 1
    /\ pc' = "driver"
    /\ UNCHANGED <<params, interpolate, new_vertices, new_faces, splits, fi, a_b, b_c,
                   rng, in_vertices, in_faces, call, first_ret, created>>
    /\ UNCHANGED cacheVars
    /\ UNCHANGED colorVars

\* lines 143, 163
DriverReturn ==
    /\ pc = "driver"
    /\ i = params.refinements
    /\ pc' = "done"
    /\ UNCHANGED <<params, vertices, faces, i, interpolate, new_vertices, new_faces,
                   splits, fi, a_b, b_c, rng, in_vertices, in_faces, call, first_ret,
                   created>>
    /\ UNCHANGED cacheVars
    /\ UNCHANGED colorVars

Next ==
    \/ BeginPass
    \/ SplitAB
    \/ SplitBC
    \/ SplitCA
    \/ ReturnPass
    \/ DriverReturn

Spec == Init /\ [][Next]_vars

(***************************************************************************)
(* Meshes.                                                                 *)
(***************************************************************************)
Corners(f) == {f[1], f[2], f[3]}
DirEdges(f) == {<<f[1], f[2]>>, <<f[2], f[3]>>, <<f[3], f[1]>>}
HasEdge(f, u, v) == \E e \in DirEdges(f) : {e[1], e[2]} = {u, v}

\* vertex index -> the numbers of the faces it is a corner of
FacesAt(fs) ==
    [v \in UNION {Corners(fs[g]) : g \in 1..Len(fs)} |->
        {g \in 1..Len(fs) : v \in Corners(fs[g])}]

\* every undirected edge of a face of fs is an edge of exactly two faces
Closed(fs) ==
    LET at == FacesAt(fs)
    IN  \A g \in 1..Len(fs) : \A e \in DirEdges(fs[g]) :
            Cardinality({h \in at[e[1]] : HasEdge(fs[h], e[1], e[2])}) = 2

\* every directed edge of a face of fs is a directed edge of that face alone
ConsistentlyWound(fs) ==
    LET at == FacesAt(fs)
    IN  \A g \in 1..Len(fs) : \A e \in DirEdges(fs[g]) :
            {h \in at[e[1]] : e \in DirEdges(fs[h])} = {g}

ValidFaces(vs, fs) ==
    \A g \in 1..Len(fs) :
        /\ \A k \in 1..3 : fs[g][k] >= 0 /\ fs[g][k] < Len(vs)
        /\ Cardinality(Corners(fs[g])) = 3

\* the driver holds a mesh it was given or that refine_mesh returned
Produced == pc = "driver"

\* C1: every mesh produced by any number of passes from the octahedron is closed:
\* each undirected edge of a face is an edge of exactly two faces, whatever the
\* positions interpolate returned (zero and NaN positions included).
C1_Closed == Produced => Closed(faces)

C1_Witness ==
    /\ Produced
    /\ i = 2
    /\ \E k \in 1..Len(vertices) : vertices[k] = NaN
    /\ \E k \in 1..Len(vertices) : vertices[k] = Zero

\* C5: in every mesh produced from the octahedron every face index is a valid
\* index of the vertex list and no face names a vertex twice.
C5_ValidFaces == Produced => ValidFaces(vertices, faces)

C5_Witness == Produced /\ i = 2 /\ Len(faces) = 128 /\ Len(vertices) = 66

\* C10: in every mesh produced from the octahedron each directed edge (u,v) of a
\* face belongs to that face only, so the two faces sharing an undirected edge
\* run along it in opposite directions.
C10_Winding == Produced => ConsistentlyWound(faces)

C10_Witness ==
    /\ Produced
    /\ i = 2
    /\ \E g, h \in 1..Len(faces) :
          \E e \in DirEdges(faces[g]) : g # h /\ <<e[2], e[1]>> \in DirEdges(faces[h])

(***************************************************************************)
(* refine_mesh called once on an arbitrary input mesh.                     *)
(***************************************************************************)
\* the sequences over S of length n
RECURSIVE SeqsOfLen(_, _)
SeqsOfLen(S, n) ==
    IF n = 0 THEN {<<>>}
    ELSE {Append(q, x) : q \in SeqsOfLen(S, n - 1), x \in S}

\* the vertex indices of the input meshes: those of one triangle
InputIndices == {0, 1, 2}

\* the face lists of at most MaxFaces faces, degenerate faces included
InputFaces ==
    UNION {SeqsOfLen(InputIndices \X InputIndices \X InputIndices, m) : m \in 0..MaxFaces}

InitInput ==
    /\ params = InputParams
    /\ vertices = SubSeq(OctahedronVertices, 1, Cardinality(InputIndices))
    /\ faces \in InputFaces
    /\ rng = 0
    /\ pc = "driver"
    /\ InitRest

SpecInput == InitInput /\ [][Next]_vars

\* both drivers: the octahedron pipelines and the single call on an arbitrary mesh
SpecAll == (Init \/ InitInput) /\ [][Next]_vars

\* refine_mesh has returned: (in_vertices, in_faces) went in, (vertices, faces) came out
Returned == pc = "driver" /\ i > 0

\* refine_mesh is between its first and its last statement
InPass == pc \in {"ab", "bc", "ca"}

\* the unordered index pairs that are an edge of some face of fs
UndirectedEdges(fs) ==
    UNION {{{e[1], e[2]} : e \in DirEdges(fs[g])} : g \in 1..Len(fs)}

\* C2: one call of refine_mesh returns as many vertices as it was given plus one
\* for every distinct unordered pair of indices that is an edge of an input face.
C2_VertexCount ==
    Returned => Len(vertices) = Len(in_vertices) + Cardinality(UndirectedEdges(in_faces))

C2_Witness ==
    /\ Returned
    /\ Len(in_faces) = 2
    /\ Cardinality(Corners(in_faces[1])) = 3
    /\ \E e \in DirEdges(in_faces[1]) : <<e[2], e[1]>> \in DirEdges(in_faces[2])
    /\ Len(vertices) < Len(in_vertices) + 6

\* C3: one call of refine_mesh returns four times as many faces as it was given,
\* and n passes from the octahedron give 8 * 4^n faces.
C3_FaceCount ==
    /\ Returned => Len(faces) = 4 * Len(in_faces)
    /\ (Produced /\ params.mode # "input") => Len(faces) = 8 * Pow(4, i)

C3_Witness ==
    /\ Returned
    /\ params.mode = "input"
    /\ Len(in_faces) = 2
    /\ in_faces[1] = in_faces[2]
    /\ Len(faces) = 8

\* C4: within one pass, a call of split_vertex for an unordered pair that was split
\* before returns the index its first call returned, appends nothing and does not
\* call interpolate; the first call for a pair calls interpolate and appends
\* exactly one vertex.
C4_SplitOnce ==
    call.made =>
        /\ call.ret = first_ret[{call.a, call.b}]
        /\ call.repeat =>
              Len(new_vertices) = call.len_before /\ ~call.called
        /\ ~call.repeat =>
              Len(new_vertices) = call.len_before + 1 /\ call.called
                  /\ call.ret = call.len_before

C4_Witness ==
    /\ InPass
    /\ call.made
    /\ call.repeat
    /\ call.a > call.b
    /\ <<call.b, call.a>> \in DOMAIN splits

\* the k-th smallest element of the set of numbers S
Nth(S, k) == CHOOSE x \in S : Cardinality({y \in S : y < x}) = k - 1

\* the unordered pairs split by refine_mesh, in the order of their first visit:
\* faces in input order and, within a face, the edges a-b, b-c, c-a
VisitOrder(fs) ==
    LET pair(k) == LET f == fs[((k - 1) \div 3) + 1]
                       j == ((k - 1) % 3) + 1
                   IN  {f[j], f[(j % 3) + 1]}
        firsts == {k \in 1..(3 * Len(fs)) : \A j \in 1..(k - 1) : pair(j) # pair(k)}
    IN  [k \in 1..Cardinality(firsts) |-> pair(Nth(firsts, k))]

\* C9: refine_mesh leaves the caller's vertex and face lists as they were; what it
\* returns starts with the input vertices, index by index; and the k-th vertex
\* created in the pass, in visiting order, has index n + k - 1.
C9_Frame ==
    /\ InPass => vertices = in_vertices /\ faces = in_faces
    /\ (InPass \/ Returned) =>
          \A k \in 1..Len(created) : created[k].idx = Len(in_vertices) + k - 1
    /\ Returned =>
          /\ SubSeq(vertices, 1, Len(in_vertices)) = in_vertices
          /\ Len(vertices) = Len(in_vertices) + Len(created)
          /\ [k \in 1..Len(created) |-> created[k].pair] = VisitOrder(in_faces)

C9_Witness ==
    /\ Returned
    /\ Len(in_faces) = 2
    /\ Len(created) = 4
    /\ created[4].idx = 6
    /\ vertices[7] = NaN

\* the midpoint 0.5 * (vec_1 + vec_2) of two positions is the zero vector
ZeroMidpoint(vec_1, vec_2) ==
    /\ vec_1 \notin {NaN, Unknown}
    /\ vec_2 \notin {NaN, Unknown}
    /\ \A k \in 1..3 : AddSign(vec_1[k], vec_2[k]) = 0

\* the last split_vertex call handed interpolate two parents with a zero midpoint
DegenerateCall ==
    /\ call.made
    /\ call.called
    /\ ZeroMidpoint(new_vertices[call.a + 1], new_vertices[call.b + 1])

\* C7: when the midpoint of the two parents is the zero vector the displacement
\* step fails: no vertex is appended for that edge, the pass is abandoned, and no
\* mesh that is returned holds an invalid (NaN) vertex.
C7_DegenerateMidpointFails ==
    /\ DegenerateCall => Len(new_vertices) = call.len_before /\ pc = "failed"
    /\ Produced => \A k \in 1..Len(vertices) : vertices[k] # NaN

(***************************************************************************)
(* The pipelines as main() runs them: whole invocations, and st.cache.     *)
(***************************************************************************)
\* the element of a one-element set
Only(S) == CHOOSE x \in S : TRUE

\* lines 79-88: the loop body for face f; st holds new_vertices (vs), splits (sp),
\* new_faces (nf) and the generator (rng)
FaceStep(st, f, rule) ==
    Only(UNION {UNION {
        {[vs |-> r3.vs, sp |-> r3.sp, rng |-> r3.rng,
          nf |-> st.nf \o ChildFaces(f[1], f[2], f[3], r1.idx, r2.idx, r3.idx)] :
            r3 \in {split_vertex(f[3], f[1], r2.vs, r2.sp, rule, r2.rng)}} :
            r2 \in {split_vertex(f[2], f[3], r1.vs, r1.sp, rule, r1.rng)}} :
            r1 \in {split_vertex(f[1], f[2], st.vs, st.sp, rule, st.rng)}})

\* lines 79-88: the loop from face number k on
RECURSIVE FaceLoop(_, _, _, _)
FaceLoop(st, fs, k, rule) ==
    IF k > Len(fs) THEN st
    ELSE Only({FaceLoop(nx, fs, k + 1, rule) : nx \in {FaceStep(st, fs[k], rule)}})

\* refine_mesh(vs, fs, interpolate) with the generator in state s
refine_mesh(vs, fs, rule, s) ==
    Only({[vertices |-> st.vs, faces |-> st.nf, rng |-> st.rng] :
            st \in {FaceLoop([vs |-> vs, sp |-> EmptySplits, rng |-> s, nf |-> <<>>],
                             fs, 1, rule)}})

\* fractal_refinement's loop from pass k on; xs are the overshoot slider values
RECURSIVE FractalLoop(_, _, _)
FractalLoop(m, xs, k) ==
    IF k >= Len(xs) THEN m
    ELSE Only({FractalLoop(nx, xs, k + 1) :
                 nx \in {refine_mesh(m.vertices, m.faces, FractalRule(xs[k + 1]), m.rng)}})

fractal_refinement(xs, s) ==
    FractalLoop([vertices |-> OctahedronVertices, faces |-> OctahedronFaces, rng |-> s],
                xs, 0)

\* the body of cached_planet: its loop from pass k on
RECURSIVE PlanetLoop(_, _, _, _, _)
PlanetLoop(m, refinements, offset_range, dampen, k) ==
    IF k >= refinements THEN m
    ELSE Only({PlanetLoop(nx, refinements, offset_range, dampen, k + 1) :
                 nx \in {refine_mesh(m.vertices, m.faces,
                                     PlanetRule(offset_range, dampen, k), m.rng)}})

planet_body(refinements, offset_range, dampen, s) ==
    PlanetLoop([vertices |-> OctahedronVertices, faces |-> OctahedronFaces, rng |-> s],
               refinements, offset_range, dampen, 0)

\* without the decorator of line 152 no call finds a stored return value
CacheMiss(c, key) == FALSE

\* st.cache: the call's arguments are the key of a stored return value
CacheHit(c, key) == key \in DOMAIN c

\* cached_planet(refinements, offset_range, dampen) behind st.cache, with the
\* cache c and the generator in state s: the mesh, the cache and the generator
\* afterwards, and the number of refine_mesh calls made
cached_planet(refinements, offset_range, dampen, c, s) ==
    LET key == <<refinements, offset_range, dampen>>
    IN  IF CacheHit(c, key)
        THEN [mesh |-> c[key], cache |-> c, rng |-> s, refine_calls |-> 0]
        ELSE Only({[mesh |-> [vertices |-> m.vertices, faces |-> m.faces],
                    cache |-> (key :> [vertices |-> m.vertices, faces |-> m.faces]) @@ c,
                    rng |-> m.rng,
                    refine_calls |-> refinements] :
                      m \in {planet_body(refinements, offset_range, dampen, s)}})

\* main() has not run yet
InitCache ==
    /\ params = InputParams
    /\ vertices = <<>>
    /\ faces = <<>>
    /\ rng \in 0..(RngPeriod - 1)
    /\ pc = "main"
    /\ InitRest

\* the history of an invocation with key `key` that returned `mesh`
Invoked(key, mesh, n) ==
    /\ last' = [made |-> TRUE, key |-> key, mesh |-> mesh, refine_calls |-> n,
                repeat |-> key \in DOMAIN seen]
    /\ seen' = IF key \in DOMAIN seen THEN seen ELSE (key :> mesh) @@ seen
    /\ ninv' = ninv + 1
    /\ vertices' = mesh.vertices
    /\ faces' = mesh.faces

\* main() with 'fractal' selected (lines 192-194)
RunFractal ==
    /\ pc = "main"
    /\ ninv < MaxInvocations
    /\ \E r \in 0..MaxCachedRefinements : \E xs \in SeqsOfLen(OvershootVals, r) :
          \E m \in {fractal_refinement(xs, rng)} :
              /\ Invoked(<<"fractal", r, xs>>,
                         [vertices |-> m.vertices, faces |-> m.faces], r)
              /\ rng' = m.rng
    /\ UNCHANGED <<params, i, interpolate, new_vertices, new_faces, splits, fi, a_b, b_c,
                   pc, in_vertices, in_faces, call, first_ret, created, cache>>
    /\ UNCHANGED colorVars

\* main() with 'planet' selected (lines 195-196, 145-150)
RunPlanet ==
    /\ pc = "main"
    /\ ninv < MaxInvocations
    /\ \E r \in 0..MaxCachedRefinements : \E o \in OffsetRangeVals : \E d \in DampenVals :
          \E res \in {cached_planet(r, o, d, cache, rng)} :
              /\ Invoked(<<"planet", r, <<o, d>>>>, res.mesh, res.refine_calls)
              /\ cache' = res.cache
              /\ rng' = res.rng
    /\ UNCHANGED <<params, i, interpolate, new_vertices, new_faces, splits, fi, a_b, b_c,
                   pc, in_vertices, in_faces, call, first_ret, created>>
    /\ UNCHANGED colorVars

NextCache == RunFractal \/ RunPlanet

SpecCache == InitCache /\ [][NextCache]_vars

\* C8 as claimed: in either mode an invocation whose key equals that of an earlier
\* invocation returns the mesh the earlier one returned and calls refine_mesh not
\* at all.
C8_MemoisedBothModes ==
    (last.made /\ last.repeat) =>
        last.mesh = seen[last.key] /\ last.refine_calls = 0

\* C8 as amended: an invocation whose key equals that of an earlier invocation
\* returns the mesh the earlier one returned; in planet mode it calls refine_mesh
\* not at all, in fractal mode it calls refine_mesh again, once per pass.
C8_MemoisedPlanet ==
    (last.made /\ last.repeat) =>
        /\ last.mesh = seen[last.key]
        /\ last.key[1] = "planet" => last.refine_calls = 0
        /\ last.key[1] = "fractal" => last.refine_calls = last.key[2]

C8_Witness ==
    /\ last.made
    /\ last.repeat
    /\ last.key = <<"planet", 1, <<100, 100>>>>
    /\ last.refine_calls = 0
    /\ \E k \in 1..Len(last.mesh.vertices) : last.mesh.vertices[k] = Zero
    /\ \E k \in 1..Len(last.mesh.vertices) :
          k > 6 /\ last.mesh.vertices[k] # Zero

(***************************************************************************)
(* planet_colorscale                                                       *)
(***************************************************************************)
\* lines 167-173: the presets, elevations in hundredths
COLOR_PRESETS ==
    << [name |-> "ocean", elevation |-> 45, color |-> <<0, 0, 128>>],
       [name |-> "beach", elevation |-> 46, color |-> <<255, 255, 0>>],
       [name |-> "forest", elevation |-> 47, color |-> <<0, 128, 0>>],
       [name |-> "mountain", elevation |-> 87, color |-> <<200, 200, 200>>],
       [name |-> "moutaintop", elevation |-> 100, color |-> <<255, 255, 255>>] >>

\* values of an elevation slider (0.0 .. 1.0) besides its default, in hundredths
ElevationVals == {20, 50}

InitColor ==
    /\ params = InputParams
    /\ vertices = <<>>
    /\ faces = <<>>
    /\ rng = 0
    /\ pc = "color"
    /\ InitRest

\* lines 176-183: one iteration of the loop; the colour picker keeps its default
ColorStep ==
    /\ pc = "color"
    /\ ci <= Len(COLOR_PRESETS)
    /\ \E elevation \in ElevationVals \cup {COLOR_PRESETS[ci].elevation} :
          LET color == COLOR_PRESETS[ci].color
          IN  colorscale' =
                  (IF colorscale = <<>> THEN <<[elevation |-> 0, color |-> color]>>
                   ELSE colorscale)
                  \o <<[elevation |-> elevation, color |-> color]>>
    /\ ci' = ci + 1
    /\ UNCHANGED meshVars
    /\ UNCHANGED cacheVars
    /\ UNCHANGED rng

\* line 185
ColorReturn ==
    /\ pc = "color"
    /\ ci > Len(COLOR_PRESETS)
    /\ pc' = "colorscale returned"
    /\ UNCHANGED <<params, vertices, faces, i, interpolate, new_vertices, new_faces,
                   splits, fi, a_b, b_c, rng, in_vertices, in_faces, call, first_ret,
                   created>>
    /\ UNCHANGED cacheVars
    /\ UNCHANGED colorVars

NextColor == ColorStep \/ ColorReturn

SpecColor == InitColor /\ [][NextColor]_vars

\* C6: a table of stops whose elevations are not in non-decreasing order is
\* reported: planet_colorscale never returns a colorscale whose elevations
\* decrease from one stop to the next.
C6_NonMonotonicReported ==
    pc = "colorscale returned" =>
        \A k \in 1..(Len(colorscale) - 1) :
            colorscale[k].elevation <= colorscale[k + 1].elevation

====
